---- MODULE Spec2Model ----
(***************************************************************************)
(* Model of src/main.py: the per-user task store (TaskStorage over the    *)
(* sqlite file tasks.db), the chat command handlers that call it, and the *)
(* periodic reminder job.                                                 *)
(*                                                                        *)
(* The database file is one record:                                       *)
(*   sqlite_master   - the names of the existing tables, in creation      *)
(*                     order (the order a scan of sqlite_master returns); *)
(*   tables          - for every existing USER_<id> table its rows, in    *)
(*                     rowid order (the order an unordered SELECT on a    *)
(*                     rowid table returns);                              *)
(*   sqlite_sequence - the rows of sqlite's AUTOINCREMENT bookkeeping     *)
(*                     table: table name -> largest rowid ever assigned.  *)
(* Every storage method commits before it returns and contains no await,  *)
(* so on the single asyncio loop each method call is one atomic step, on  *)
(* whichever connection it is made.                                       *)
(*                                                                        *)
(* Two variables record history and are read by no operation:             *)
(*   issued  - per user, the ids add_task has assigned since the user's   *)
(*             table was last created;                                    *)
(*   emptied - the users whose last record delete_task has removed and    *)
(*             who have not added a task since.                           *)
(***************************************************************************)
EXTENDS Integers, Sequences, FiniteSets, TLC

VARIABLES db, job, user_ids, chat_id, message, sent, local_open, issued, emptied

vars == <<db, job, user_ids, chat_id, message, sent, local_open, issued, emptied>>

(***************************************************************************)
(* Bounds of the model.                                                   *)
(***************************************************************************)
\* /new is not offered once the next AUTOINCREMENT id of the user's table
\* would exceed this
MaxId == 3
\* the chat users that talk to the bot: a one-digit and a two-digit id
Users == {9, 10}
\* /new is not offered while the database holds as many rows as there are
\* users
MaxRows == Cardinality(Users)
TaskIds == 1 .. MaxId

\* sqlite NULL (the note column is never written)
NULL == "NULL"
\* Python None (what a method without a return statement returns)
None == "None"

(***************************************************************************)
(* The schema of CREATE TABLE in ensure_user_table.                       *)
(***************************************************************************)
Task == [id : Nat \ {0}, title : STRING, due_datetime : STRING, done : {0, 1}, note : {NULL}]

\* DB_NAME = "tasks.db": a file that does not exist yet is created empty
DB_NAME == [sqlite_master |-> <<>>, tables |-> <<>>, sqlite_sequence |-> <<>>]

(***************************************************************************)
(* Helpers over sequences.                                                *)
(***************************************************************************)
Range(s) == {s[i] : i \in 1..Len(s)}

MaxOf(S) == IF S = {} THEN 0 ELSE CHOOSE m \in S : \A n \in S : n <= m

\* f without the key k
Without(f, k) == [x \in (DOMAIN f) \ {k} |-> f[x]]

(***************************************************************************)
(* BaseStorage / TaskStorage.  Every method is an operator from the       *)
(* database before the call to                                            *)
(*   [db |-> the database after it, raised |-> the exception that left    *)
(*    the method or None, ret |-> the value returned].                    *)
(***************************************************************************)
Returns(d, v) == [db |-> d, raised |-> None, ret |-> v]
Raises(d, e) == [db |-> d, raised |-> e, ret |-> None]

\* a table name that does not embed the user id
_table_name_shared(user_id) == "USER_0"

\* f'USER_{user_id}'
_table_name(user_id) == "USER_" \o ToString(user_id)

\* is there a table of this name (a row of sqlite_master)
TableExists(d, table) == table \in Range(d.sqlite_master)

\* CREATE TABLE IF NOT EXISTS ... id INTEGER PRIMARY KEY AUTOINCREMENT ...;
\* the first AUTOINCREMENT table also creates sqlite_sequence, after itself
ensure_user_table(d, user_id) ==
  LET table == _table_name(user_id) IN
  IF TableExists(d, table) THEN d
  ELSE [d EXCEPT
          !.sqlite_master =
             IF TableExists(d, "sqlite_sequence") THEN Append(@, table)
             ELSE Append(Append(@, table), "sqlite_sequence"),
          !.tables = (table :> <<>>) @@ @]

\* the rowid of a plain INTEGER PRIMARY KEY (no AUTOINCREMENT): one more than
\* the largest rowid the table holds now
NextRowid_plain(d, table) ==
  MaxOf({r.id : r \in Range(d.tables[table])}) + 1

\* the rowid an INSERT into an AUTOINCREMENT table gets: one more than the
\* largest rowid the table ever held
NextRowid(d, table) ==
  LET recorded == IF table \in DOMAIN d.sqlite_sequence
                  THEN d.sqlite_sequence[table] ELSE 0
      present == MaxOf({r.id : r \in Range(d.tables[table])})
  IN  (IF recorded > present THEN recorded ELSE present) + 1

\* add_task with the two bound values in the wrong order
add_task_swapped(d, user_id, title, due_datetime) ==
  LET d1 == ensure_user_table(d, user_id)
      table == _table_name(user_id)
      rowid == NextRowid(d1, table)
      row == [id |-> rowid, title |-> due_datetime, due_datetime |-> title,
              done |-> 0, note |-> NULL]
  IN  Returns([d1 EXCEPT !.tables[table] = Append(@, row),
                         !.sqlite_sequence = (table :> rowid) @@ @],
              None)

\* ensure_user_table; INSERT INTO {table} (title, due_datetime); commit
add_task(d, user_id, title, due_datetime) ==
  LET d1 == ensure_user_table(d, user_id)
      table == _table_name(user_id)
      rowid == NextRowid(d1, table)
      row == [id |-> rowid, title |-> title, due_datetime |-> due_datetime,
              done |-> 0, note |-> NULL]
  IN  Returns([d1 EXCEPT !.tables[table] = Append(@, row),
                         !.sqlite_sequence = (table :> rowid) @@ @],
              None)

\* ensure_user_table; SELECT id, title, due_datetime, done FROM {table}
list_tasks(d, user_id) ==
  LET d1 == ensure_user_table(d, user_id)
      rows == d1.tables[_table_name(user_id)]
  IN  Returns(d1, [i \in 1..Len(rows) |->
                     <<rows[i].id, rows[i].title, rows[i].due_datetime, rows[i].done>>])

\* int(done)
int(done) == IF done THEN 1 ELSE 0

\* mark_done whose UPDATE has no WHERE clause
mark_done_all(d, user_id, task_id, done) ==
  LET table == _table_name(user_id) IN
  IF ~TableExists(d, table) THEN Raises(d, "OperationalError")
  ELSE Returns([d EXCEPT !.tables[table] =
                   [i \in 1..Len(@) |-> [@[i] EXCEPT !.done = IF done THEN 1 ELSE 0]]],
               None)

\* UPDATE {table} SET done = ? WHERE id = ?; commit.
\* No ensure_user_table: the UPDATE of a missing table raises.
mark_done(d, user_id, task_id, done) ==
  LET table == _table_name(user_id) IN
  IF ~TableExists(d, table) THEN Raises(d, "OperationalError")
  ELSE Returns([d EXCEPT !.tables[table] =
                   [i \in 1..Len(@) |->
                      IF @[i].id = task_id THEN [@[i] EXCEPT !.done = int(done)]
                      ELSE @[i]]],
               None)

\* DROP TABLE {table}: the table, its rows and its sqlite_sequence row go
DropTable(d, table) ==
  [d EXCEPT !.sqlite_master = SelectSeq(@, LAMBDA n : n # table),
            !.tables = Without(@, table),
            !.sqlite_sequence = Without(@, table)]

\* delete_task whose DELETE compares with <= instead of =
delete_task_upto(d, user_id, task_id) ==
  LET table == _table_name(user_id) IN
  IF ~TableExists(d, table) THEN Raises(d, "OperationalError")
  ELSE LET d1 == [d EXCEPT !.tables[table] = SelectSeq(@, LAMBDA r : r.id > task_id)]
           count == Len(d1.tables[table])
       IN  IF count = 0 THEN Returns(DropTable(d1, table), None)
           ELSE Returns(d1, None)

\* DELETE FROM {table} WHERE id = ?; commit; SELECT COUNT;
\* if count == 0: DROP TABLE; commit.
\* No ensure_user_table: the DELETE from a missing table raises.
delete_task(d, user_id, task_id) ==
  LET table == _table_name(user_id) IN
  IF ~TableExists(d, table) THEN Raises(d, "OperationalError")
  ELSE LET d1 == [d EXCEPT !.tables[table] = SelectSeq(@, LAMBDA r : r.id # task_id)]
           count == Len(d1.tables[table])
       IN  IF count = 0 THEN Returns(DropTable(d1, table), None)
           ELSE Returns(d1, None)

\* get_pending_tasks whose SELECT has no WHERE clause
get_pending_tasks_all(d, user_id) ==
  LET d1 == ensure_user_table(d, user_id)
      rows == d1.tables[_table_name(user_id)]
  IN  Returns(d1, [i \in 1..Len(rows) |->
                     <<rows[i].id, rows[i].title, rows[i].due_datetime>>])

\* ensure_user_table; SELECT id, title, due_datetime FROM {table} WHERE done = 0
get_pending_tasks(d, user_id) ==
  LET d1 == ensure_user_table(d, user_id)
      rows == SelectSeq(d1.tables[_table_name(user_id)], LAMBDA r : r.done = 0)
  IN  Returns(d1, [i \in 1..Len(rows) |->
                     <<rows[i].id, rows[i].title, rows[i].due_datetime>>])

(***************************************************************************)
(* get_all_user_ids: re.match(r"USER_(\d+)", table_name) and int(...).    *)
(***************************************************************************)
Digits == <<"0", "1", "2", "3", "4", "5", "6", "7", "8", "9">>

IsDigit(c) == \E k \in 1..10 : Digits[k] = c

DigitValue(c) == (CHOOSE k \in 1..10 : Digits[k] = c) - 1

\* the length of the longest run of digits of name that starts at position i
RECURSIVE DigitRun(_, _)
DigitRun(name, i) ==
  IF i <= Len(name) /\ IsDigit(SubSeq(name, i, i)) THEN 1 + DigitRun(name, i + 1)
  ELSE 0

\* int() of a string of decimal digits
RECURSIVE ParseInt(_)
ParseInt(digits) ==
  IF Len(digits) = 0 THEN 0
  ELSE 10 * ParseInt(SubSeq(digits, 1, Len(digits) - 1))
       + DigitValue(SubSeq(digits, Len(digits), Len(digits)))

\* the pattern with \d in place of \d+: group 1 is one digit
ReMatchUser_onedigit(table_name) ==
  IF Len(table_name) >= 6 /\ SubSeq(table_name, 1, 5) = "USER_"
     /\ DigitRun(table_name, 6) >= 1
  THEN SubSeq(table_name, 6, 6)
  ELSE None

\* re.match(r"USER_(\d+)", table_name): group 1, or None when there is no
\* match; the match is anchored at the start only
ReMatchUser(table_name) ==
  IF Len(table_name) >= 6 /\ SubSeq(table_name, 1, 5) = "USER_"
     /\ DigitRun(table_name, 6) >= 1
  THEN SubSeq(table_name, 6, 5 + DigitRun(table_name, 6))
  ELSE None

RECURSIVE MatchedIds(_)
\* the for loop of get_all_user_ids over the fetched names
MatchedIds(names) ==
  IF names = <<>> THEN <<>>
  ELSE LET match == ReMatchUser(Head(names)) IN
       (IF match # None THEN <<ParseInt(match)>> ELSE <<>>) \o MatchedIds(Tail(names))

\* SELECT name FROM sqlite_master WHERE type='table', then the loop
get_all_user_ids(d) == Returns(d, MatchedIds(d.sqlite_master))

(***************************************************************************)
(* What the chat platform hands to the handlers: context.args, the        *)
(* whitespace-separated words after the command.                          *)
(***************************************************************************)
\* each user writes about their own subject, so a record shows who made it
Subject(user_id) == IF user_id = 9 THEN <<"Buy", "milk">> ELSE <<"Report">>

NewArgs(user_id) ==
  { <<"01.01.2025", "18:00">>,
    <<"31.02.2025", "18:00">> \o Subject(user_id),
    <<"01.01.2025", "18:00">> \o Subject(user_id) }

IdArgs == {<<>>, <<"x">>} \cup {<<ToString(i)>> : i \in TaskIds}

\* ' '.join(words)
RECURSIVE Join(_)
Join(words) ==
  IF words = <<>> THEN ""
  ELSE IF Len(words) = 1 THEN words[1]
       ELSE words[1] \o " " \o Join(Tail(words))

AllDigits(str) == Len(str) >= 1 /\ DigitRun(str, 1) = Len(str)

DaysInMonth(year, month) ==
  IF month = 2
  THEN (IF (year % 4 = 0 /\ year % 100 # 0) \/ year % 400 = 0 THEN 29 ELSE 28)
  ELSE IF month \in {4, 6, 9, 11} THEN 30 ELSE 31

\* datetime.strptime(due_str, "%d.%m.%Y %H:%M").isoformat() for the
\* zero-padded form "DD.MM.YYYY HH:MM"; "ValueError" for a string that is not
\* a calendar date-time
StrptimeIso(due_str) ==
  LET dd == SubSeq(due_str, 1, 2)
      mm == SubSeq(due_str, 4, 5)
      yyyy == SubSeq(due_str, 7, 10)
      hh == SubSeq(due_str, 12, 13)
      mi == SubSeq(due_str, 15, 16)
  IN  IF /\ Len(due_str) = 16
         /\ SubSeq(due_str, 3, 3) = "." /\ SubSeq(due_str, 6, 6) = "."
         /\ SubSeq(due_str, 11, 11) = " " /\ SubSeq(due_str, 14, 14) = ":"
         /\ AllDigits(dd) /\ AllDigits(mm) /\ AllDigits(yyyy)
         /\ AllDigits(hh) /\ AllDigits(mi)
         /\ ParseInt(yyyy) >= 1
         /\ ParseInt(mm) \in 1..12
         /\ ParseInt(dd) \in 1..DaysInMonth(ParseInt(yyyy), ParseInt(mm))
         /\ ParseInt(hh) \in 0..23 /\ ParseInt(mi) \in 0..59
      THEN yyyy \o "-" \o mm \o "-" \o dd \o "T" \o hh \o ":" \o mi \o ":00"
      ELSE "ValueError"

\* the number of rows of all USER_ tables together
RowCount(d) ==
  LET names == DOMAIN d.tables
      Sum[S \in SUBSET names] ==
        IF S = {} THEN 0
        ELSE LET n == CHOOSE n \in S : TRUE IN Len(d.tables[n]) + Sum[S \ {n}]
  IN  Sum[names]

(***************************************************************************)
(* The reminder message: the header line and one line per pending task.   *)
(* The header of the source is Russian and its dash is an em dash; both   *)
(* are written in ASCII here.                                             *)
(***************************************************************************)
Header == "Napominanie! U vas est' nevypolnennye zadachi:\n"

\* the f-string without {t[1]}
Line_notitle(t) == ToString(t[1]) \o ". " \o " - " \o t[3] \o "\n"

\* f"{t[0]}. {t[1]} — {t[2]}\n"
Line(t) == ToString(t[1]) \o ". " \o t[2] \o " - " \o t[3] \o "\n"

\* '\n'.join(lines)
RECURSIVE JoinLines(_)
JoinLines(lines) ==
  IF lines = <<>> THEN ""
  ELSE IF Len(lines) = 1 THEN lines[1]
       ELSE lines[1] \o "\n" \o JoinLines(Tail(lines))

Message(tasks) == Header \o JoinLines([i \in 1..Len(tasks) |-> Line(tasks[i])])

(***************************************************************************)
(* reminder_task from the top of its for loop to its next suspension      *)
(* point: either the await of send_message for the first remaining user   *)
(* that has pending tasks, or the end of the pass (local_storage.close()).*)
(***************************************************************************)
RECURSIVE ForLoop(_, _)
ForLoop(d, ids) ==
  IF ids = <<>>
  THEN [db |-> d, job |-> "idle", user_ids |-> <<>>, chat_id |-> 0,
        message |-> "", local_open |-> FALSE]
  ELSE LET tasks == get_pending_tasks(d, Head(ids)) IN
       IF tasks.ret # <<>>
       THEN [db |-> tasks.db, job |-> "send_message", user_ids |-> Tail(ids),
             chat_id |-> Head(ids), message |-> Message(tasks.ret),
             local_open |-> TRUE]
       ELSE ForLoop(tasks.db, Tail(ids))

\* the same loop on a storage that can fail: get_pending_tasks raises for the
\* users in failing, and the exception leaves reminder_task
Faults == {{}} \cup {{u} : u \in Users}

RECURSIVE ForLoopIO(_, _, _)
ForLoopIO(d, ids, failing) ==
  IF ids = <<>>
  THEN [db |-> d, job |-> "idle", user_ids |-> <<>>, chat_id |-> 0,
        message |-> "", local_open |-> FALSE]
  ELSE IF Head(ids) \in failing
       THEN [db |-> d, job |-> "raised", user_ids |-> ids, chat_id |-> 0,
             message |-> "", local_open |-> TRUE]
       ELSE LET tasks == get_pending_tasks(d, Head(ids)) IN
            IF tasks.ret # <<>>
            THEN [db |-> tasks.db, job |-> "send_message", user_ids |-> Tail(ids),
                  chat_id |-> Head(ids), message |-> Message(tasks.ret),
                  local_open |-> TRUE]
            ELSE ForLoopIO(tasks.db, Tail(ids), failing)

Suspend(at) ==
  /\ db' = at.db
  /\ job' = at.job
  /\ user_ids' = at.user_ids
  /\ chat_id' = at.chat_id
  /\ message' = at.message
  /\ local_open' = at.local_open

(***************************************************************************)
(* Initial state: the module has run, storage = TaskStorage() has opened  *)
(* (and created) tasks.db, no handler and no job has run.                 *)
(***************************************************************************)
Init ==
  /\ db = DB_NAME
  /\ job = "idle"
  /\ user_ids = <<>>
  /\ chat_id = 0
  /\ message = ""
  /\ sent = <<>>
  /\ local_open = FALSE
  /\ issued = [u \in Users |-> {}]
  /\ emptied = {}

JobVars == <<job, user_ids, chat_id, message, sent, local_open>>

History == <<issued, emptied>>

\* the ids of the rows of a user's table (none when there is no table)
Ids(d, user_id) ==
  IF TableExists(d, _table_name(user_id))
  THEN {r.id : r \in Range(d.tables[_table_name(user_id)])}
  ELSE {}

(***************************************************************************)
(* The command handlers, while the application runs (/stop ends the run   *)
(* and /help touches nothing).  The storage call of a handler comes       *)
(* before its first await, so it is atomic with respect to the job.       *)
(***************************************************************************)
\* /new <DD.MM.YYYY HH:MM> <title>: an update with fewer than three words or
\* with a date that strptime rejects is answered without a store call
new(user_id, args) ==
  /\ IF Len(args) < 3
     THEN UNCHANGED db
     ELSE LET due == StrptimeIso(args[1] \o " " \o args[2])
              title == Join(SubSeq(args, 3, Len(args)))
          IN  IF due = "ValueError"
              THEN UNCHANGED db
              ELSE /\ NextRowid(ensure_user_table(db, user_id), _table_name(user_id)) <= MaxId
                   /\ RowCount(db) < MaxRows
                   /\ db' = add_task(db, user_id, title, due).db
  /\ issued' = [issued EXCEPT ![user_id] = @ \cup (Ids(db', user_id) \ Ids(db, user_id))]
  /\ emptied' = IF Ids(db', user_id) # Ids(db, user_id) THEN emptied \ {user_id} ELSE emptied
  /\ UNCHANGED JobVars

\* /tasks
tasks(user_id) ==
  /\ db' = list_tasks(db, user_id).db
  /\ UNCHANGED <<JobVars, History>>

\* the body shared by /done <id> and /undone <id>: without a word the usage
\* is answered, int() of a word that is no number raises ValueError, and an
\* exception of mark_done leaves the handler; none of these writes
SetDone(user_id, args, flag) ==
  /\ IF Len(args) = 0 \/ ~AllDigits(args[1])
     THEN UNCHANGED db
     ELSE db' = mark_done(db, user_id, ParseInt(args[1]), flag).db
  /\ UNCHANGED <<JobVars, History>>

\* /done <id>
done(user_id, args) == SetDone(user_id, args, TRUE)

\* /undone <id>
undone(user_id, args) == SetDone(user_id, args, FALSE)

\* /delete <id>
delete(user_id, args) ==
  /\ IF Len(args) = 0 \/ ~AllDigits(args[1])
     THEN UNCHANGED db
     ELSE db' = delete_task(db, user_id, ParseInt(args[1])).db
  /\ issued' = [issued EXCEPT ![user_id] =
                    IF TableExists(db', _table_name(user_id)) THEN @ ELSE {}]
  /\ emptied' = IF Ids(db, user_id) # {} /\ Ids(db', user_id) = {}
                THEN emptied \cup {user_id} ELSE emptied
  /\ UNCHANGED JobVars

(***************************************************************************)
(* The reminder job (run_repeating): one pass is reminder_task from its   *)
(* start to the first await, then one step per completed send_message.    *)
(* Each step computes the point it runs to once and stores it.            *)
(***************************************************************************)
\* local_storage = TaskStorage(); user_ids = get_all_user_ids(); the loop
reminder_task ==
  /\ job = "idle"
  /\ sent' = <<>>
  /\ \E at \in {ForLoop(db, get_all_user_ids(db).ret)} : Suspend(at)
  /\ UNCHANGED History


\* the await without try/except: an exception of send_message leaves the
\* pass, which then neither fetches the remaining users nor closes
send_message_uncaught(delivered) ==
  /\ job = "send_message"
  /\ sent' = Append(sent, [chat_id |-> chat_id, delivered |-> delivered])
  /\ \E at \in {IF delivered THEN ForLoop(db, user_ids)
                  ELSE [db |-> db, job |-> "idle", user_ids |-> <<>>, chat_id |-> 0,
                        message |-> "", local_open |-> TRUE]} : Suspend(at)
  /\ UNCHANGED History

\* await app.bot.send_message(...) returns, or raises and the except clause
\* logs it; the loop goes on with the next user
send_message(delivered) ==
  /\ job = "send_message"
  /\ sent' = Append(sent, [chat_id |-> chat_id, delivered |-> delivered])
  /\ \E at \in {ForLoop(db, user_ids)} : Suspend(at)
  /\ UNCHANGED History


Next ==
  \/ \E user_id \in Users : \E args \in NewArgs(user_id) : new(user_id, args)
  \/ \E user_id \in Users : tasks(user_id)
  \/ \E user_id \in Users, args \in IdArgs : done(user_id, args)
  \/ \E user_id \in Users, args \in IdArgs : undone(user_id, args)
  \/ \E user_id \in Users, args \in IdArgs : delete(user_id, args)
  \/ reminder_task
  \/ \E delivered \in BOOLEAN : send_message(delivered)

Spec == Init /\ [][Next]_vars

(***************************************************************************)
(* What the scheduling guarantees.  run_repeating starts reminder_task at *)
(* every interval, and the event loop resumes the coroutine as soon as    *)
(* its await is over, so a pass that can start does start.  Nothing in    *)
(* the program bounds the await itself: send_message is awaited without   *)
(* asyncio.wait_for or any other timeout of the program, so the step      *)
(* send_message happens only if the call comes back, and the users send   *)
(* commands when they like.                                               *)
(***************************************************************************)
LiveSpec == Init /\ [][Next]_vars /\ WF_vars(reminder_task)

(***************************************************************************)
(* The same program on a storage that can fail.  Every sqlite3 call can   *)
(* raise sqlite3.Error (disk I/O error, database locked, disk full); in a *)
(* pass the environment picks the users whose get_pending_tasks raises    *)
(* before it has read or written anything.  reminder_task has no          *)
(* try/except around its storage calls, so the exception leaves the       *)
(* coroutine: job = "raised", with user_ids the users the pass had not    *)
(* finished (the one whose fetch raised first) and local_storage.close()  *)
(* not executed.  The job queue logs the exception and runs the job again *)
(* at the next interval.                                                  *)
(***************************************************************************)
reminder_task_io(failing) ==
  /\ job \in {"idle", "raised"}
  /\ sent' = <<>>
  /\ \E at \in {ForLoopIO(db, get_all_user_ids(db).ret, failing)} : Suspend(at)
  /\ UNCHANGED History

send_message_io(delivered, failing) ==
  /\ job = "send_message"
  /\ sent' = Append(sent, [chat_id |-> chat_id, delivered |-> delivered])
  /\ \E at \in {ForLoopIO(db, user_ids, failing)} : Suspend(at)
  /\ UNCHANGED History

NextIO ==
  \/ \E user_id \in Users : \E args \in NewArgs(user_id) : new(user_id, args)
  \/ \E user_id \in Users : tasks(user_id)
  \/ \E user_id \in Users, args \in IdArgs : done(user_id, args)
  \/ \E user_id \in Users, args \in IdArgs : undone(user_id, args)
  \/ \E user_id \in Users, args \in IdArgs : delete(user_id, args)
  \/ \E failing \in Faults : reminder_task_io(failing)
  \/ \E delivered \in BOOLEAN, failing \in Faults : send_message_io(delivered, failing)

SpecIO == Init /\ [][NextIO]_vars

(***************************************************************************)
(* The values the claims quantify over.                                   *)
(***************************************************************************)
\* the titles /new can pass to the store
ValidTitles == {Join(Subject(u)) : u \in Users}

\* due_at values as /new passes them (isoformat of a parsed date)
ValidDues == {StrptimeIso("01.01.2025 18:00"), StrptimeIso("28.02.2025 09:30")}

\* a list_tasks result as its set of ids
ListedIds(rows) == {rows[i][1] : i \in 1..Len(rows)}

(***************************************************************************)
(* C1.  In every reachable state of the store, for every user and every   *)
(* valid title and due_at: list_tasks after add_task returns the records  *)
(* list_tasks returned before, unchanged and in the same order, followed  *)
(* by exactly one new record, which has a new id, that title, that due_at *)
(* and done = 0 (false).                                                  *)
(***************************************************************************)
C1_AddThenList ==
  \A u \in Users, title \in ValidTitles, due \in ValidDues :
    LET before == list_tasks(db, u).ret
        after == list_tasks(add_task(db, u, title, due).db, u).ret
    IN  /\ Len(after) = Len(before) + 1
        /\ SubSeq(after, 1, Len(before)) = before
        /\ after[Len(after)][1] \notin ListedIds(before)
        /\ after[Len(after)][2] = title
        /\ after[Len(after)][3] = due
        /\ after[Len(after)][4] = 0

\* add_task has appended to a table that already held a record: some user has
\* two records, the newer one not done, under the id sqlite_sequence recorded
C1_Witness ==
  \E u \in Users :
    LET rows == list_tasks(db, u).ret IN
    /\ Len(rows) = 2
    /\ rows[2][2] \in ValidTitles
    /\ rows[2][4] = 0
    /\ db.sqlite_sequence[_table_name(u)] = rows[2][1]

(***************************************************************************)
(* C2.  No per-user collection holds zero Task Records: in every          *)
(* reachable state every existing USER_ table has at least one row.       *)
(***************************************************************************)
C2_NoEmptyCollection ==
  \A u \in Users :
    TableExists(db, _table_name(u)) => Len(db.tables[_table_name(u)]) > 0

(***************************************************************************)
(* C3.  A user whose last remaining task delete_task has removed is       *)
(* absent from known_user_ids() in every later state until that user's    *)
(* next add_task.                                                         *)
(***************************************************************************)
C3_AbsentUntilAdd ==
  \A u \in emptied : u \notin Range(get_all_user_ids(db).ret)

(***************************************************************************)
(* C4.  For every user (with or without a collection) and every task_id   *)
(* that is not the id of a record of that user, mark_done completes       *)
(* without raising and leaves the store unchanged.                        *)
(***************************************************************************)
C4_MarkDoneNoOp ==
  \A u \in Users, flag \in BOOLEAN :
    \A task_id \in TaskIds \ Ids(db, u) :
      LET r == mark_done(db, u, task_id, flag) IN
      r.raised = None /\ r.db = db

(***************************************************************************)
(* C5.  For every user (with or without a collection) and every task_id   *)
(* that is not the id of a record of that user, delete_task completes     *)
(* without raising and leaves that user's records and the set of existing *)
(* collections unchanged.                                                 *)
(***************************************************************************)
C5_DeleteNoOp ==
  \A u \in Users :
    \A task_id \in TaskIds \ Ids(db, u) :
      LET r == delete_task(db, u, task_id) IN
      /\ r.raised = None
      /\ Range(r.db.sqlite_master) = Range(db.sqlite_master)
      /\ r.db.tables = db.tables

(***************************************************************************)
(* C6, as claimed.  delete_task of an existing id removes exactly that    *)
(* record, and every later list_tasks of the user contains no record with *)
(* that id: here the list_tasks right after the delete and the list_tasks *)
(* after the user's next add_task.                                        *)
(***************************************************************************)
\* rows without the record of this id
Except(rows, task_id) == SelectSeq(rows, LAMBDA row : row[1] # task_id)

C6_NeverListedAgain ==
  \A u \in Users, title \in ValidTitles, due \in ValidDues :
    \A task_id \in Ids(db, u) :
      LET d1 == delete_task(db, u, task_id).db IN
      /\ list_tasks(d1, u).ret = Except(list_tasks(db, u).ret, task_id)
      /\ task_id \notin ListedIds(list_tasks(add_task(d1, u, title, due).db, u).ret)

(***************************************************************************)
(* C6, amended.  delete_task of an existing id removes exactly that       *)
(* record: list_tasks right after it is the previous list without that    *)
(* record (every other record keeps its id, title, due_at, done flag and  *)
(* place), and for as long as the user's collection is not destroyed no   *)
(* add_task brings an id back that was deleted during its life.           *)
(***************************************************************************)
C6_DeleteExactlyThat ==
  \A u \in Users :
    /\ \A task_id \in Ids(db, u) :
         LET r == delete_task(db, u, task_id) IN
         /\ r.raised = None
         /\ list_tasks(r.db, u).ret = Except(list_tasks(db, u).ret, task_id)
         /\ TableExists(r.db, _table_name(u)) =>
              \A title \in ValidTitles, due \in ValidDues :
                task_id \notin ListedIds(list_tasks(add_task(r.db, u, title, due).db, u).ret)
    /\ Ids(db, u) \subseteq issued[u]
    /\ \A task_id \in issued[u] \ Ids(db, u) :
         \A title \in ValidTitles, due \in ValidDues :
           task_id \notin ListedIds(list_tasks(add_task(db, u, title, due).db, u).ret)

\* delete_task has removed a record of a collection that lives on: an id
\* issued in this collection is gone and an older and a newer record are left
C6_Witness ==
  \E u \in Users :
    /\ 2 \in issued[u] \ Ids(db, u)
    /\ Ids(db, u) = {1, 3}

(***************************************************************************)
(* C7.  Isolation.  In every reachable state, every store operation       *)
(* invoked for a user A (add_task, list_tasks, mark_done, delete_task,    *)
(* pending_tasks) leaves the existence, the records and the id counter of *)
(* every other user B's collection unchanged, and list_tasks(B) and       *)
(* pending_tasks(B) return only records that B created.                   *)
(***************************************************************************)
\* a user's collection: whether it exists, its rows, its sqlite_sequence row
Collection(d, u) ==
  LET table == _table_name(u) IN
  IF table \in Range(d.sqlite_master)
  THEN <<TRUE, d.tables[table],
         IF table \in DOMAIN d.sqlite_sequence THEN d.sqlite_sequence[table] ELSE 0>>
  ELSE <<FALSE, <<>>, 0>>

\* the databases the store operations of user a can leave behind
After(d, a) ==
  {add_task(d, a, title, due).db : title \in ValidTitles, due \in ValidDues}
  \cup {list_tasks(d, a).db, get_pending_tasks(d, a).db}
  \cup {mark_done(d, a, task_id, flag).db : task_id \in TaskIds, flag \in BOOLEAN}
  \cup {delete_task(d, a, task_id).db : task_id \in TaskIds}

C7_Isolation ==
  \A a \in Users, b \in Users :
    a # b =>
      /\ \A d \in After(db, a) :
           /\ Collection(d, b) = Collection(db, b)
           /\ list_tasks(d, b).ret = list_tasks(db, b).ret
           /\ get_pending_tasks(d, b).ret = get_pending_tasks(db, b).ret
      /\ \A row \in Range(list_tasks(db, b).ret) : row[2] = Join(Subject(b))
      /\ \A row \in Range(get_pending_tasks(db, b).ret) : row[2] = Join(Subject(b))

\* both users hold records, each their own, while a reminder pass is under way
C7_Witness ==
  /\ \A u \in Users : Ids(db, u) # {}
  /\ list_tasks(db, 9).ret[1][2] # list_tasks(db, 10).ret[1][2]
  /\ job = "send_message"

(***************************************************************************)
(* C8.  In every reachable state, for every user, pending_tasks(user) is  *)
(* exactly the records of list_tasks(user) whose done flag is false,      *)
(* projected to (id, title, due_at), in the same order, and that order is *)
(* ascending id.                                                          *)
(***************************************************************************)
\* the rows of a list_tasks result that are not done, as (id, title, due_at)
NotDone(rows) ==
  LET open == SelectSeq(rows, LAMBDA row : row[4] = 0)
  IN  [i \in 1..Len(open) |-> <<open[i][1], open[i][2], open[i][3]>>]

Ascending(rows) == \A i, j \in 1..Len(rows) : i < j => rows[i][1] < rows[j][1]

C8_PendingIsFilteredList ==
  \A u \in Users :
    LET listed == list_tasks(db, u).ret
        pending == get_pending_tasks(db, u).ret
    IN  /\ pending = NotDone(listed)
        /\ Ascending(listed)
        /\ Ascending(pending)
        /\ \A row \in Range(listed) : row[4] \in {0, 1}

\* a user holds a done record followed by a pending one: the pending list is
\* a proper, non-empty part of the list
C8_Witness ==
  \E u \in Users :
    LET listed == list_tasks(db, u).ret IN
    /\ Len(listed) = 2
    /\ listed[1][4] = 1
    /\ listed[2][4] = 0
    /\ Len(get_pending_tasks(db, u).ret) = 1

(***************************************************************************)
(* C9.  In every reachable state, for every user and every existing task  *)
(* id whose done flag is false: mark_done(true) takes exactly that record *)
(* out of pending_tasks, mark_done(false) after it restores the original  *)
(* pending_tasks result, repeating either call with the same flag changes *)
(* nothing further, and no other record's done flag (nor anything else)   *)
(* changes.                                                               *)
(***************************************************************************)
\* the rows of a user's table with the done flag of one id set to a value
WithDone(d, u, task_id, value) ==
  [i \in 1..Len(d.tables[_table_name(u)]) |->
     IF d.tables[_table_name(u)][i].id = task_id
     THEN [d.tables[_table_name(u)][i] EXCEPT !.done = value]
     ELSE d.tables[_table_name(u)][i]]

C9_MarkDoneRoundTrip ==
  \A u \in Users :
    \A task_id \in Ids(db, u) :
      (\E row \in Range(list_tasks(db, u).ret) : row[1] = task_id /\ row[4] = 0) =>
        LET m1 == mark_done(db, u, task_id, TRUE)
            m2 == mark_done(m1.db, u, task_id, FALSE)
        IN  /\ m1.raised = None /\ m2.raised = None
            /\ m1.db = [db EXCEPT !.tables[_table_name(u)] = WithDone(db, u, task_id, 1)]
            /\ get_pending_tasks(m1.db, u).ret
                 = SelectSeq(get_pending_tasks(db, u).ret, LAMBDA t : t[1] # task_id)
            /\ get_pending_tasks(m2.db, u).ret = get_pending_tasks(db, u).ret
            /\ m2.db = db
            /\ mark_done(m1.db, u, task_id, TRUE).db = m1.db
            /\ mark_done(m2.db, u, task_id, FALSE).db = m2.db

\* mark_done(true) has acted on one of two records of a user: one record is
\* done, the other is still pending
C9_Witness ==
  \E u \in Users :
    LET listed == list_tasks(db, u).ret IN
    /\ Len(listed) = 2
    /\ listed[1][4] = 0
    /\ listed[2][4] = 1

(***************************************************************************)
(* C10.  Within one user's collection, for as long as it is not           *)
(* destroyed, every add_task assigns an id strictly greater than every id *)
(* assigned earlier in that collection: ids are unique among the user's   *)
(* records and the id of a deleted task is never assigned again.          *)
(***************************************************************************)
C10_IdsIncrease ==
  \A u \in Users :
    /\ Ids(db, u) \subseteq issued[u]
    /\ Cardinality(Ids(db, u)) = Len(list_tasks(db, u).ret)
    /\ TableExists(db, _table_name(u)) =>
         \A title \in ValidTitles, due \in ValidDues :
           LET after == list_tasks(add_task(db, u, title, due).db, u).ret
           IN  \A earlier \in issued[u] : after[Len(after)][1] > earlier

\* a collection in which id 2 was assigned and deleted and the next add_task
\* was given 3
C10_Witness ==
  \E u \in Users :
    /\ issued[u] = {1, 2, 3}
    /\ Ids(db, u) = {1, 3}
    /\ db.sqlite_sequence[_table_name(u)] = 3

(***************************************************************************)
(* C11.  In every reachable state get_all_user_ids returns exactly the    *)
(* ids of the users whose table exists: the id of every user with a       *)
(* table, each once, nothing for the table sqlite_sequence (the one       *)
(* existing table whose name is not USER_<id>), and the empty list when   *)
(* no user table exists; the call leaves the database as it was.          *)
(***************************************************************************)
C11_KnownUserIds ==
  LET known == get_all_user_ids(db)
      others == {i \in 1..Len(db.sqlite_master) :
                   \A u \in Users : db.sqlite_master[i] # _table_name(u)}
  IN  /\ known.raised = None
      /\ known.db = db
      /\ Range(known.ret) = {u \in Users : TableExists(db, _table_name(u))}
      /\ \A i, j \in 1..Len(known.ret) : known.ret[i] = known.ret[j] => i = j
      /\ Len(known.ret) = Len(db.sqlite_master) - Cardinality(others)
      /\ (\A u \in Users : ~TableExists(db, _table_name(u))) => known.ret = <<>>

\* both users have a table, next to sqlite_sequence, and both ids come back
C11_Witness ==
  /\ \A u \in Users : TableExists(db, _table_name(u))
  /\ \E i \in 1..Len(db.sqlite_master) : db.sqlite_master[i] = "sqlite_sequence"
  /\ Len(get_all_user_ids(db).ret) = Cardinality(Users)

(***************************************************************************)
(* Text of messages, for the claims about the reminder.                   *)
(***************************************************************************)
\* how often the text sub occurs in the text str
Occurrences(str, sub) ==
  Cardinality({i \in 1..(Len(str) - Len(sub) + 1) : SubSeq(str, i, i + Len(sub) - 1) = sub})

\* the line "{id}. {title} - {due_at}" of a record (the dash as in Line)
LineOf(id, title, due_at) == ToString(id) \o ". " \o title \o " - " \o due_at

\* the users a delivery call was made for in the pass so far, in call order
Called == [i \in 1..Len(sent) |-> sent[i].chat_id]

\* no user is called twice in a pass: the calls made, the call under way and
\* the users still to fetch are all different users
OncePerPass ==
  LET calls == Called \o (IF job = "send_message" THEN <<chat_id>> ELSE <<>>) \o user_ids
  IN  \A i, j \in 1..Len(calls) : calls[i] = calls[j] => i = j

\* what a piece of the pass that starts with the users ids still to fetch
\* has to do: no call when none of them has a pending task, and else one
\* call to the first of them that has, with every pending task of that
\* user on one line and no line of any other record
PassRule(ids) ==
  LET pending(u) == get_pending_tasks(db, u).ret
      having == {i \in 1..Len(ids) : pending(ids[i]) # <<>>}
  IN  IF having = {}
      THEN job' = "idle"
      ELSE LET k == CHOOSE i \in having : \A j \in having : i <= j
               mine == pending(ids[k])
           IN  /\ job' = "send_message"
               /\ chat_id' = ids[k]
               /\ user_ids' = SubSeq(ids, k + 1, Len(ids))
               /\ \A i \in 1..Len(mine) :
                     Occurrences(message', LineOf(mine[i][1], mine[i][2], mine[i][3])) = 1
               /\ \A u \in Users :
                     LET rows == list_tasks(db, u).ret IN
                     \A i \in 1..Len(rows) :
                       (u # ids[k] \/ rows[i][4] # 0) =>
                         Occurrences(message', LineOf(rows[i][1], rows[i][2], rows[i][3])) = 0

C12_Step ==
  /\ reminder_task => PassRule(get_all_user_ids(db).ret)
  /\ \A delivered \in BOOLEAN : send_message(delivered) => PassRule(user_ids)
  /\ OncePerPass'

(***************************************************************************)
(* C12.  In one pass of the reminder a delivery call is made for a known  *)
(* user exactly when get_pending_tasks of that user is non-empty at the   *)
(* moment the pass fetches it, addressed to that user and at most once    *)
(* per user per pass; the message has one line "{id}. {title} - {due_at}" *)
(* for every pending task of that user and for no other task.             *)
(***************************************************************************)
C12_DeliveryIffPending == [][C12_Step]_vars

\* a second call of one pass is under way, with two pending tasks listed
C12_Witness ==
  /\ job = "send_message"
  /\ sent # <<>>
  /\ \E i, j \in TaskIds : \E title \in ValidTitles, due \in ValidDues :
        /\ i # j
        /\ Occurrences(message, LineOf(i, title, due)) = 1
        /\ Occurrences(message, LineOf(j, title, due)) = 1

\* the step in which a delivery call failed
DeliveryFailed == Len(sent') = Len(sent) + 1 /\ ~sent'[Len(sent')].delivered

C13_Step ==
  DeliveryFailed =>
    /\ sent' = Append(sent, [chat_id |-> chat_id, delivered |-> FALSE])
    /\ PassRule(user_ids)
    /\ job' = "idle" => ~local_open' /\ user_ids' = <<>>
    /\ job' = "send_message" => local_open'

(***************************************************************************)
(* C13.  When the delivery call for a user fails, the failure stays in    *)
(* that user's iteration: the call is over, the pass goes on to fetch the *)
(* pending tasks of the remaining known users in order and calls the      *)
(* first of them that has any, and when none has, the pass ends normally  *)
(* with its storage closed.                                               *)
(***************************************************************************)
C13_DeliveryFailureCaught == [][C13_Step]_vars

\* a pass has ended in which the first call failed and a second was made
C13_Witness ==
  /\ job = "idle"
  /\ ~local_open
  /\ Len(sent) = 2
  /\ ~sent[1].delivered
  /\ sent[1].chat_id # sent[2].chat_id

\* the step in which a storage call of the pass raised
StorageRaised == job' = "raised" /\ (job # "raised" \/ sent' # sent \/ user_ids' # user_ids)

C14_Step ==
  StorageRaised =>
    \A i \in 2..Len(user_ids') : get_pending_tasks(db', user_ids'[i]).ret = <<>>

(***************************************************************************)
(* C14.  When get_pending_tasks raises for one user during a pass, the    *)
(* failure is isolated to that user: the pass does not stop while a known *)
(* user after that one has pending tasks and has not been fetched and     *)
(* notified.                                                              *)
(***************************************************************************)
C14_StorageFailureIsolated == [][C14_Step]_vars

(***************************************************************************)
(* C15.  In every reachable state, for every user, valid title and        *)
(* due_at, add_task returns the id of the record it created: the id of    *)
(* the last record list_tasks shows afterwards.                           *)
(***************************************************************************)
C15_AddReturnsId ==
  \A u \in Users, title \in ValidTitles, due \in ValidDues :
    LET added == add_task(db, u, title, due)
        rows == list_tasks(added.db, u).ret
    IN  /\ added.raised = None
        /\ added.ret # None
        /\ added.ret = rows[Len(rows)][1]

(***************************************************************************)
(* C16.  In every reachable state, for every user and valid due_at,       *)
(* add_task with the empty title raises and leaves the database as it     *)
(* was: no record and no table is created.                                *)
(***************************************************************************)
C16_EmptyTitleRejected ==
  \A u \in Users, due \in ValidDues :
    LET added == add_task(db, u, "", due)
    IN  /\ added.raised # None
        /\ added.db = db

(***************************************************************************)
(* C18.  No step of a reminder pass changes the database, whatever the    *)
(* handlers did while the pass was waiting for a send_message: a table    *)
(* that was dropped after the pass had read the user ids is not there     *)
(* after the pass either.                                                 *)
(***************************************************************************)
C18_SweepReadOnly ==
  [][(reminder_task \/ \E delivered \in BOOLEAN : send_message(delivered)) => db' = db]_vars

(***************************************************************************)
(* C19.  Whenever no pass is under way, also after a pass that a storage  *)
(* exception ended, the storage handle that pass had opened is closed.    *)
(***************************************************************************)
C19_HandleClosed == job \in {"idle", "raised"} => ~local_open

(***************************************************************************)
(* C17.  A reminder pass always terminates: whenever a pass is waiting    *)
(* for a delivery call, also one that never comes back, the pass          *)
(* eventually goes on and ends.                                           *)
(***************************************************************************)
C17_PassTerminates == (job = "send_message") ~> (job = "idle")

====
